---- MODULE Spec2Model ----
(***************************************************************************)
(* A model of the parallel demodularizer of melodeon (src/demod.rs):       *)
(* Demodularizer::demod, which flattens a module graph by inlining every   *)
(* `require`, and the renamer mangle / mangle_expr / mangle_type_expr /    *)
(* mangle_const_expr / mangle_sym it applies to each inlined dependency.   *)
(*                                                                         *)
(* Syntax trees are records carrying a `tag`.  The source position that    *)
(* every Ctx<..> node carries is copied through by the code and never      *)
(* read, so it is left out of the records.                                 *)
(***************************************************************************)
EXTENDS Integers, Sequences, FiniteSets, TLC

VARIABLES
    world,        \* what the loader (`fallback`) serves: ModuleId -> source
    cache,        \* Demodularizer.cache: the ModuleIds it holds and their programs
    frames,       \* the demod invocations in progress, keyed by call path
    loaderCalls,  \* how often `fallback` was invoked, per ModuleId
    results,      \* the finished top-level demod calls, oldest first: what each gave,
                  \* into how many pieces its fold was split, the loader counts at its end
    mangleLog     \* the calls of mangle that returned: requirer, source, input, output

vars == <<world, cache, frames, loaderCalls, results, mangleLog>>

(***************************************************************************)
(* Bounds of the model.                                                    *)
(***************************************************************************)
\* how many top-level demod calls a client makes, one after the other
MaxTopCalls == 2
\* how deep demod may nest before the model stops following the recursion
MaxDepth == 3

(***************************************************************************)
(* Syntax: RawConstExpr, RawTypeExpr, RawExpr, RawDefn, RawProgram.        *)
(***************************************************************************)
CSym(s) == [tag |-> "CSym", s |-> s]
CLit(l) == [tag |-> "CLit", l |-> l]
CPlus(a, b) == [tag |-> "CPlus", a |-> a, b |-> b]
CMult(a, b) == [tag |-> "CMult", a |-> a, b |-> b]

TSym(s) == [tag |-> "TSym", s |-> s]
TUnion(a, b) == [tag |-> "TUnion", a |-> a, b |-> b]
TVector(v) == [tag |-> "TVector", v |-> v]
TVectorof(v, n) == [tag |-> "TVectorof", v |-> v, n |-> n]
TNatRange(i, j) == [tag |-> "TNatRange", i |-> i, j |-> j]

Let(sym, bind, body) == [tag |-> "Let", sym |-> sym, bind |-> bind, body |-> body]
If(cond, a, b) == [tag |-> "If", cond |-> cond, a |-> a, b |-> b]
BinOp(op, a, b) == [tag |-> "BinOp", op |-> op, a |-> a, b |-> b]
LitNum(a) == [tag |-> "LitNum", a |-> a]
LitVec(v) == [tag |-> "LitVec", v |-> v]
LitStruct(a, fields) == [tag |-> "LitStruct", a |-> a, fields |-> fields]
Var(v) == [tag |-> "Var", v |-> v]
CgVar(v) == [tag |-> "CgVar", v |-> v]
Apply(f, args) == [tag |-> "Apply", f |-> f, args |-> args]
Field(a, b) == [tag |-> "Field", a |-> a, b |-> b]
VectorRef(v, i) == [tag |-> "VectorRef", v |-> v, i |-> i]
VectorSlice(v, i, j) == [tag |-> "VectorSlice", v |-> v, i |-> i, j |-> j]
VectorUpdate(v, i, x) == [tag |-> "VectorUpdate", v |-> v, i |-> i, x |-> x]
Loop(n, bod, end) == [tag |-> "Loop", n |-> n, bod |-> bod, end |-> end]
IsType(a, t) == [tag |-> "IsType", a |-> a, t |-> t]
AsType(a, t) == [tag |-> "AsType", a |-> a, t |-> t]
Fail == [tag |-> "Fail"]

\* an argument of a function, or a field of a struct: a name and its type
TypeBind(name, bind) == [name |-> name, bind |-> bind]

\* rettype is an Option: the empty sequence is None, <<t>> is Some(t)
Function(name, cgvars, genvars, args, rettype, body) ==
    [tag |-> "Function", name |-> name, cgvars |-> cgvars, genvars |-> genvars,
     args |-> args, rettype |-> rettype, body |-> body]
Struct(name, fields) == [tag |-> "Struct", name |-> name, fields |-> fields]
Constant(name, value) == [tag |-> "Constant", name |-> name, value |-> value]
Require(other) == [tag |-> "Require", other |-> other]
Provide(sym) == [tag |-> "Provide", sym |-> sym]

RawProgram(definitions, body) == [definitions |-> definitions, body |-> body]

(***************************************************************************)
(* The renamer.                                                            *)
(***************************************************************************)
\* ModuleId::uniqid: the numeric tag of a module, distinct for distinct modules
uniqid(id) ==
    CASE id = "A" -> 11
      [] id = "B" -> 12
      [] id = "C" -> 13

\* format!("{:?}-{}", sym, source.uniqid())
MangledName(sym, source) == sym \o "-" \o ToString(uniqid(source))

\* mangle_sym with its test turned round
mangle_sym_swapped(sym, source, no_mangle) ==
    IF sym \in no_mangle THEN MangledName(sym, source) ELSE sym

\* mangle_sym: a symbol of the do-not-mangle set stays, any other is qualified
mangle_sym(sym, source, no_mangle) ==
    IF sym \in no_mangle THEN sym ELSE MangledName(sym, source)

mangle_ctx_sym(sym, source, no_mangle) == mangle_sym(sym, source, no_mangle)

RECURSIVE mangle_const_expr(_, _, _)
mangle_const_expr(sym, source, no_mangle) ==
    CASE sym.tag = "CSym" -> CSym(mangle_sym(sym.s, source, no_mangle))
      [] sym.tag = "CLit" -> CLit(sym.l)
      [] sym.tag = "CPlus" -> CPlus(mangle_const_expr(sym.a, source, no_mangle),
                                    mangle_const_expr(sym.b, source, no_mangle))
      [] sym.tag = "CMult" -> CMult(mangle_const_expr(sym.a, source, no_mangle),
                                    mangle_const_expr(sym.b, source, no_mangle))

RECURSIVE mangle_type_expr(_, _, _)
mangle_type_expr(bind, source, no_mangle) ==
    CASE bind.tag = "TSym" -> TSym(mangle_sym(bind.s, source, no_mangle))
      [] bind.tag = "TUnion" -> TUnion(mangle_type_expr(bind.a, source, no_mangle),
                                       mangle_type_expr(bind.b, source, no_mangle))
      [] bind.tag = "TVector" ->
            TVector([k \in DOMAIN bind.v |-> mangle_type_expr(bind.v[k], source, no_mangle)])
      [] bind.tag = "TVectorof" ->
            TVectorof(mangle_type_expr(bind.v, source, no_mangle),
                      mangle_const_expr(bind.n, source, no_mangle))
      [] bind.tag = "TNatRange" ->
            TNatRange(mangle_const_expr(bind.i, source, no_mangle),
                      mangle_const_expr(bind.j, source, no_mangle))

RECURSIVE mangle_expr(_, _, _)
mangle_expr(expr, source, no_mangle) ==
    CASE expr.tag = "Let" ->
            \* the bound value is handed on as it came; only the body is rewritten
            Let(expr.sym, expr.bind,
                mangle_expr(expr.body, source, no_mangle \cup {expr.sym}))
      [] expr.tag = "If" -> If(mangle_expr(expr.cond, source, no_mangle),
                               mangle_expr(expr.a, source, no_mangle),
                               mangle_expr(expr.b, source, no_mangle))
      [] expr.tag = "BinOp" -> BinOp(expr.op,
                                     mangle_expr(expr.a, source, no_mangle),
                                     mangle_expr(expr.b, source, no_mangle))
      [] expr.tag = "LitNum" -> LitNum(expr.a)
      [] expr.tag = "LitVec" ->
            LitVec([k \in DOMAIN expr.v |-> mangle_expr(expr.v[k], source, no_mangle)])
      [] expr.tag = "LitStruct" ->
            LitStruct(mangle_sym(expr.a, source, no_mangle),
                      [k \in DOMAIN expr.fields |->
                          <<expr.fields[k][1],
                            mangle_expr(expr.fields[k][2], source, no_mangle)>>])
      [] expr.tag = "Var" -> Var(mangle_sym(expr.v, source, no_mangle))
      [] expr.tag = "CgVar" -> CgVar(mangle_sym(expr.v, source, no_mangle))
      [] expr.tag = "Apply" ->
            Apply(mangle_expr(expr.f, source, no_mangle),
                  [k \in DOMAIN expr.args |-> mangle_expr(expr.args[k], source, no_mangle)])
      [] expr.tag = "Field" -> Field(mangle_expr(expr.a, source, no_mangle), expr.b)
      [] expr.tag = "VectorRef" -> VectorRef(mangle_expr(expr.v, source, no_mangle),
                                             mangle_expr(expr.i, source, no_mangle))
      [] expr.tag = "VectorSlice" -> VectorSlice(mangle_expr(expr.v, source, no_mangle),
                                                 mangle_expr(expr.i, source, no_mangle),
                                                 mangle_expr(expr.j, source, no_mangle))
      [] expr.tag = "VectorUpdate" -> VectorUpdate(mangle_expr(expr.v, source, no_mangle),
                                                   mangle_expr(expr.i, source, no_mangle),
                                                   mangle_expr(expr.x, source, no_mangle))
      [] expr.tag = "Loop" ->
            Loop(mangle_const_expr(expr.n, source, no_mangle),
                 [k \in DOMAIN expr.bod |->
                     <<mangle_sym(expr.bod[k][1], source, no_mangle),
                       mangle_expr(expr.bod[k][2], source, no_mangle)>>],
                 mangle_expr(expr.end, source, no_mangle))
      [] expr.tag = "IsType" -> IsType(mangle_sym(expr.a, source, no_mangle),
                                       mangle_type_expr(expr.t, source, no_mangle))
      [] expr.tag = "AsType" -> AsType(mangle_expr(expr.a, source, no_mangle),
                                       mangle_type_expr(expr.t, source, no_mangle))
      [] expr.tag = "Fail" -> Fail

\* the do-not-mangle set of mangle: the Provide markers among defs
no_mangle_of(defs) ==
    {defs[k].sym : k \in {j \in DOMAIN defs : defs[j].tag = "Provide"}}

\* the set inside a function as it would be with the argument names forgotten
inner_nomangle_without_args(defn, no_mangle) ==
    no_mangle \cup {defn.cgvars[k] : k \in DOMAIN defn.cgvars}
              \cup {defn.genvars[k] : k \in DOMAIN defn.genvars}

\* the do-not-mangle set inside a function: cgvars, genvars and argument names added
inner_nomangle_of(defn, no_mangle) ==
    no_mangle \cup {defn.cgvars[k] : k \in DOMAIN defn.cgvars}
              \cup {defn.genvars[k] : k \in DOMAIN defn.genvars}
              \cup {defn.args[k].name : k \in DOMAIN defn.args}

\* the body of mangle's filter_map closure, for the two kinds it keeps
mangle_defn(defn, source, no_mangle) ==
    IF defn.tag = "Function"
    THEN LET inner_nomangle == inner_nomangle_of(defn, no_mangle)
         IN  Function(mangle_ctx_sym(defn.name, source, no_mangle),
                      defn.cgvars,
                      defn.genvars,
                      [k \in DOMAIN defn.args |->
                          TypeBind(defn.args[k].name,
                                   mangle_type_expr(defn.args[k].bind, source, inner_nomangle))],
                      [k \in DOMAIN defn.rettype |->
                          mangle_type_expr(defn.rettype[k], source, no_mangle)],
                      mangle_expr(defn.body, source, inner_nomangle))
    ELSE Struct(mangle_ctx_sym(defn.name, source, no_mangle), defn.fields)

\* RawDefn::Constant(_, _) => todo!(): mangle panics when defs holds a Constant
mangle_panics(defs) == \E k \in DOMAIN defs : defs[k].tag = "Constant"

\* which definitions the filter_map keeps (Require and Provide give None)
mangle_keeps(defn) == defn.tag \in {"Function", "Struct"}

\* mangle(defs, source), for defs without a Constant
mangle(defs, source) ==
    LET no_mangle == no_mangle_of(defs)
        kept == SelectSeq(defs, mangle_keeps)
    IN  [k \in DOMAIN kept |-> mangle_defn(kept[k], source, no_mangle)]

(***************************************************************************)
(* Results: CtxResult<Ctx<RawProgram>>, and what a panic leaves instead.   *)
(***************************************************************************)
OkRes(definitions, body) ==
    [kind |-> "ok", definitions |-> definitions, body |-> body, err |-> "none", ctx |-> "none"]
\* CtxErr { err, ctx }: the loader's error comes with ctx None (err_ctx(None)) and
\* names no module; the parser's comes with a place in the module it parsed
ErrRes(err, ctx) ==
    [kind |-> "err", definitions |-> <<>>, body |-> Fail, err |-> err, ctx |-> ctx]
\* the call unwound with a panic and returned nothing
PanicRes ==
    [kind |-> "panic", definitions |-> <<>>, body |-> Fail, err |-> "none", ctx |-> "none"]

(***************************************************************************)
(* The loader and the parser.                                              *)
(***************************************************************************)
ModuleIds == {"A", "B", "C"}

\* (self.fallback)(id): the text of the module, or an I/O error
fallback(id) ==
    IF world[id].io THEN [ok |-> TRUE, text |-> world[id]] ELSE [ok |-> FALSE, text |-> world[id]]

\* parse_program(&raw_string, id): the program the text denotes, or a syntax error
parse_program(raw_string, id) ==
    IF raw_string.syn
    THEN OkRes(raw_string.definitions, raw_string.body)
    ELSE ErrRes("syntax", id)

(***************************************************************************)
(* The parallel fold and reduce of demod.                                  *)
(***************************************************************************)
\* || Ok(List::new())
identity == OkRes(<<>>, Fail)

\* the fold closure with a swallowed dependency error (local recovery)
fold_step_recovering(accum, def, other_demodularized) ==
    IF accum.kind = "err" THEN accum
    ELSE IF def.tag = "Require"
         THEN IF other_demodularized.kind = "err" THEN accum
              ELSE OkRes(accum.definitions \o mangle(other_demodularized.definitions, def.other), Fail)
         ELSE OkRes(Append(accum.definitions, def), Fail)

\* the fold closure pushing the Require itself before what it stands for
fold_step_keeping_require(accum, def, other_demodularized) ==
    IF accum.kind = "err" THEN accum
    ELSE IF def.tag = "Require"
         THEN IF other_demodularized.kind = "err" THEN other_demodularized
              ELSE OkRes(Append(accum.definitions, def)
                             \o mangle(other_demodularized.definitions, def.other), Fail)
         ELSE OkRes(Append(accum.definitions, def), Fail)

\* the fold closure |accum, def|, given what self.demod(*other) returned
\* (other_demodularized is read only when def is a Require)
fold_step(accum, def, other_demodularized) ==
    IF accum.kind = "err" THEN accum
    ELSE IF def.tag = "Require"
         THEN IF other_demodularized.kind = "err" THEN other_demodularized
              ELSE OkRes(accum.definitions \o mangle(other_demodularized.definitions, def.other), Fail)
         ELSE OkRes(Append(accum.definitions, def), Fail)

\* the reduce closure with its operands exchanged
reduce_step_swapped(a, b) ==
    IF a.kind = "err" THEN a
    ELSE IF b.kind = "err" THEN b
    ELSE OkRes(b.definitions \o a.definitions, Fail)

\* the reduce closure |a, b|
reduce_step(a, b) ==
    IF a.kind = "err" THEN a
    ELSE IF b.kind = "err" THEN b
    ELSE OkRes(a.definitions \o b.definitions, Fail)

\* one piece of the definition list that par_iter().fold folds on its own:
\* definitions lo..hi, of which next is the one to fold now; wait says that
\* the piece is inside self.demod(*other) for definition next
Chunk(lo, hi) == [lo |-> lo, hi |-> hi, next |-> lo, wait |-> FALSE, acc |-> identity]

\* the pieces a list of n definitions is split into, given where it is cut
ChunkSeq(n, cuts) ==
    LET ends == cuts \cup {n}
        nth(j) == CHOOSE e \in ends : Cardinality({x \in ends : x <= e}) = j
    IN  IF n = 0 THEN <<>>
        ELSE [j \in 1..Cardinality(ends) |->
                 Chunk(IF j = 1 THEN 1 ELSE nth(j - 1) + 1, nth(j))]

ChunkDone(ch) == ch.next > ch.hi /\ ~ch.wait

\* a demod invocation: pc "enter" before the cache lookup, "fold" while
\* the fold and reduce run, "done" when it ended before folding; cuts keeps
\* where par_iter split the definition list
Frame(id) ==
    [id |-> id, pc |-> "enter", definitions |-> <<>>, body |-> Fail,
     cuts |-> {}, chunks |-> <<>>, res |-> identity]

FrameComplete(f) ==
    \/ f.pc = "done"
    \/ /\ f.pc = "fold"
       /\ Len(f.chunks) <= 1
       /\ \A c \in DOMAIN f.chunks : ChunkDone(f.chunks[c])

\* what a complete invocation gives its caller: .reduce(..)? and the Ok(RawProgram{..})
FrameResult(f) ==
    IF f.pc = "done" THEN f.res
    ELSE LET new_defs == IF f.chunks = <<>> THEN identity ELSE f.chunks[1].acc
         IN  IF new_defs.kind = "ok"
             THEN OkRes(new_defs.definitions, f.body)
             ELSE new_defs

NoFrames == [q \in {} |-> Frame("A")]

(***************************************************************************)
(* Actions.                                                                *)
(***************************************************************************)
\* a client calls demod(id) on the idle Demodularizer
Call(id) ==
    /\ DOMAIN frames = {}
    /\ Len(results) < MaxTopCalls
    /\ frames' = (<<>> :> Frame(id))
    /\ UNCHANGED <<world, cache, loaderCalls, results, mangleLog>>

\* demod up to the fold: cache lookup, loader, parser, and the split of the
\* definition list that par_iter makes
Enter(p) ==
    /\ p \in DOMAIN frames
    /\ frames[p].pc = "enter"
    /\ LET id == frames[p].id
           raw == fallback(id)
           parsed == parse_program(raw.text, id)
       IN  IF id \in DOMAIN cache
           THEN /\ frames' = [frames EXCEPT ![p].pc = "done",
                                            ![p].res = OkRes(cache[id].definitions, cache[id].body)]
                /\ UNCHANGED loaderCalls
           ELSE /\ loaderCalls' = [loaderCalls EXCEPT ![id] = @ + 1]
                /\ IF ~raw.ok
                   THEN frames' = [frames EXCEPT ![p].pc = "done",
                                                 ![p].res = ErrRes("io", "none")]
                   ELSE IF parsed.kind = "err"
                   THEN frames' = [frames EXCEPT ![p].pc = "done", ![p].res = parsed]
                   ELSE \E cuts \in SUBSET (1..(Len(parsed.definitions) - 1)) :
                           frames' = [frames EXCEPT
                               ![p].pc = "fold",
                               ![p].definitions = parsed.definitions,
                               ![p].body = parsed.body,
                               ![p].cuts = cuts,
                               ![p].chunks = ChunkSeq(Len(parsed.definitions), cuts)]
    /\ UNCHANGED <<world, cache, results, mangleLog>>

\* the fold closure on a definition that is no Require, or after an error
FoldPush(p, c) ==
    /\ p \in DOMAIN frames
    /\ frames[p].pc = "fold"
    /\ c \in DOMAIN frames[p].chunks
    /\ LET ch == frames[p].chunks[c]
       IN  /\ ch.next <= ch.hi
           /\ ~ch.wait
           /\ ch.acc.kind # "panic"
           /\ LET def == frames[p].definitions[ch.next]
              IN  /\ ch.acc.kind = "err" \/ def.tag # "Require"
                  /\ frames' = [frames EXCEPT
                        ![p].chunks[c].acc = fold_step(ch.acc, def, identity),
                        ![p].chunks[c].next = ch.next + 1]
    /\ UNCHANGED <<world, cache, loaderCalls, results, mangleLog>>

\* the fold closure on a Require, were it to refuse a module that is being
\* resolved further up its own call path instead of calling demod again
FoldRequire_cycle_checked(p, c) ==
    /\ p \in DOMAIN frames
    /\ frames[p].pc = "fold"
    /\ c \in DOMAIN frames[p].chunks
    /\ Len(p) < MaxDepth
    /\ LET ch == frames[p].chunks[c]
           onpath == {frames[SubSeq(p, 1, n)].id : n \in 0..Len(p)}
       IN  /\ ch.next <= ch.hi
           /\ ~ch.wait
           /\ ch.acc.kind = "ok"
           /\ frames[p].definitions[ch.next].tag = "Require"
           /\ IF frames[p].definitions[ch.next].other \in onpath
              THEN frames' = [frames EXCEPT
                      ![p].chunks[c].acc =
                          ErrRes("cycle", "none"),
                      ![p].chunks[c].next = ch.next + 1]
              ELSE frames' = [q \in DOMAIN frames \cup {Append(p, ch.next)} |->
                      IF q = Append(p, ch.next)
                      THEN Frame(frames[p].definitions[ch.next].other)
                      ELSE IF q = p
                      THEN [frames[p] EXCEPT !.chunks[c].wait = TRUE]
                      ELSE frames[q]]
    /\ UNCHANGED <<world, cache, loaderCalls, results, mangleLog>>

\* the fold closure on a Require: it calls self.demod(*other)
FoldRequire(p, c) ==
    /\ p \in DOMAIN frames
    /\ frames[p].pc = "fold"
    /\ c \in DOMAIN frames[p].chunks
    /\ Len(p) < MaxDepth
    /\ LET ch == frames[p].chunks[c]
       IN  /\ ch.next <= ch.hi
           /\ ~ch.wait
           /\ ch.acc.kind = "ok"
           /\ frames[p].definitions[ch.next].tag = "Require"
           /\ frames' = [q \in DOMAIN frames \cup {Append(p, ch.next)} |->
                 IF q = Append(p, ch.next)
                 THEN Frame(frames[p].definitions[ch.next].other)
                 ELSE IF q = p
                 THEN [frames[p] EXCEPT !.chunks[c].wait = TRUE]
                 ELSE frames[q]]
    /\ UNCHANGED <<world, cache, loaderCalls, results, mangleLog>>

\* self.demod(*other) is over: the closure goes on with what it gave
ReturnChild(q) ==
    /\ q \in DOMAIN frames
    /\ q # <<>>
    /\ FrameComplete(frames[q])
    /\ LET p == SubSeq(q, 1, Len(q) - 1)
           i == q[Len(q)]
           c == CHOOSE k \in DOMAIN frames[p].chunks :
                    frames[p].chunks[k].lo <= i /\ i <= frames[p].chunks[k].hi
           ch == frames[p].chunks[c]
           other == frames[q].id
           other_demodularized == FrameResult(frames[q])
           panics == \/ other_demodularized.kind = "panic"
                     \/ /\ other_demodularized.kind = "ok"
                        /\ mangle_panics(other_demodularized.definitions)
           newch == IF panics
                    THEN [ch EXCEPT !.acc = PanicRes, !.next = ch.hi + 1, !.wait = FALSE]
                    ELSE [ch EXCEPT
                            !.acc = fold_step(ch.acc, frames[p].definitions[i],
                                              other_demodularized),
                            !.next = i + 1,
                            !.wait = FALSE]
       IN  /\ frames' = [r \in DOMAIN frames \ {q} |->
                 IF r = p THEN [frames[p] EXCEPT !.chunks[c] = newch] ELSE frames[r]]
           /\ mangleLog' =
                 IF other_demodularized.kind = "ok" /\ ~panics
                 THEN mangleLog \cup
                      {[by |-> frames[p].id,
                        source |-> other,
                        defs |-> other_demodularized.definitions,
                        no_mangle |-> no_mangle_of(other_demodularized.definitions),
                        out |-> mangle(other_demodularized.definitions, other)]}
                 ELSE mangleLog
    /\ UNCHANGED <<world, cache, loaderCalls, results>>

\* reduce joins two neighbouring pieces that are both folded
Reduce(p, c) ==
    /\ p \in DOMAIN frames
    /\ frames[p].pc = "fold"
    /\ c \in DOMAIN frames[p].chunks
    /\ c + 1 \in DOMAIN frames[p].chunks
    /\ LET a == frames[p].chunks[c]
           b == frames[p].chunks[c + 1]
           joined == [lo |-> a.lo, hi |-> b.hi, next |-> b.hi + 1, wait |-> FALSE,
                      acc |-> IF a.acc.kind = "panic" \/ b.acc.kind = "panic"
                              THEN PanicRes
                              ELSE reduce_step(a.acc, b.acc)]
           n == Len(frames[p].chunks)
       IN  /\ ChunkDone(a)
           /\ ChunkDone(b)
           /\ frames' = [frames EXCEPT ![p].chunks =
                 [k \in 1..(n - 1) |->
                     IF k < c THEN frames[p].chunks[k]
                     ELSE IF k = c THEN joined
                     ELSE frames[p].chunks[k + 1]]]
    /\ UNCHANGED <<world, cache, loaderCalls, results, mangleLog>>

\* the top-level demod call is over
ReturnRoot ==
    /\ <<>> \in DOMAIN frames
    /\ FrameComplete(frames[<<>>])
    /\ results' = Append(results, [id |-> frames[<<>>].id,
                                   res |-> FrameResult(frames[<<>>]),
                                   pieces |-> Cardinality(frames[<<>>].cuts) + 1,
                                   loads |-> loaderCalls])
    /\ frames' = NoFrames
    /\ UNCHANGED <<world, cache, loaderCalls, mangleLog>>

(***************************************************************************)
(* The module sources the loader serves.                                   *)
(***************************************************************************)
\* a module file: io says the loader can read it, syn that its text parses
Source(definitions, body) ==
    [io |-> TRUE, syn |-> TRUE, definitions |-> definitions, body |-> body]
Unreadable == [io |-> FALSE, syn |-> TRUE, definitions |-> <<>>, body |-> Fail]
Unparsable == [io |-> TRUE, syn |-> FALSE, definitions |-> <<>>, body |-> Fail]

\* a function without parameters and without a return type
Fn(name, body) == Function(name, <<>>, <<>>, <<>>, <<>>, body)

World(a, b, c) == [id \in ModuleIds |-> IF id = "A" THEN a ELSE IF id = "B" THEN b ELSE c]

\* C provides g and keeps k private; B provides h, uses g and does not provide it again
LeafC ==
    Source(<<Provide("g"), Fn("g", Apply(Var("k"), <<>>)), Fn("k", LitNum(2))>>, LitNum(0))
MidB ==
    Source(<<Fn("h", Apply(Var("g"), <<Var("h")>>)), Require("C"), Provide("h")>>,
           Var("h"))
TopA ==
    Source(<<Provide("f"), Require("B"), Fn("f", Apply(Var("h"), <<>>))>>,
           Apply(Var("f"), <<>>))

\* A: [F1, Require(B), F2], B flattening to [G1, G2]
OrderA == Source(<<Fn("f1", LitNum(1)), Require("B"), Fn("f2", LitNum(2))>>, Var("f1"))
OrderB == Source(<<Fn("g1", Var("g2")), Fn("g2", LitNum(3))>>, Fail)
Empty == Source(<<>>, LitNum(0))

ShapeWorlds ==
    { \* a chain A -> B -> C
      World(TopA, MidB, LeafC),
      \* the same chain with the leaf missing, and with a leaf that does not parse
      World(TopA, MidB, Unreadable),
      World(TopA, MidB, Unparsable),
      \* [F1, Require(B), F2], and a module without definitions
      World(OrderA, OrderB, Empty),
      \* C is required twice by A, once of them after B, which is unreadable
      World(Source(<<Require("C"), Require("B"), Require("C")>>, Fail), Unreadable,
            Source(<<Struct("s", <<TypeBind("fld", TSym("s"))>>)>>, Fail)),
      \* a cycle A -> B -> A, with C outside it
      World(Source(<<Require("B"), Fn("f", LitNum(1))>>, Fail),
            Source(<<Fn("g", LitNum(1)), Require("A")>>, Fail),
            Source(<<Require("A")>>, Fail)),
      \* the cycle, with an unreadable module required before it
      World(Source(<<Require("C"), Require("B")>>, Fail),
            Source(<<Require("A")>>, Fail),
            Unreadable),
      \* B holds a Constant
      World(Source(<<Require("B"), Require("C")>>, Fail),
            Source(<<Constant("k", LitNum(1)), Fn("g", Var("k"))>>, Fail),
            Unreadable) }

(***************************************************************************)
(* Sources that take the renamer through every kind of expression: A       *)
(* requires B, and B holds one private function f<N><T>(x) whose body      *)
(* varies, beside a private struct x and a provided function q; A has a    *)
(* private function f of its own.                                          *)
(***************************************************************************)
Bodies ==
    { Let("y", Var("f"), Apply(Var("f"), <<Var("y"), Var("x")>>)),
      Let("y", Var("y"), If(Var("y"), Var("f"), Var("q"))),
      Let("f", LitNum(1), Let("x", Var("f"), Apply(Var("x"), <<Var("f"), Var("q")>>))),
      Let("z", Let("w", Var("x"), Var("w")), BinOp("+", Var("z"), Var("w"))),
      BinOp("*", CgVar("N"), LitVec(<<Var("x"), CgVar("f"), LitNum(7)>>)),
      LitStruct("T", <<<<"fld", Var("x")>>, <<"x", LitStruct("f", <<>>)>>>>),
      VectorUpdate(Field(Var("x"), "f"), VectorRef(Var("f"), Var("x")),
                   VectorSlice(Var("x"), LitNum(0), CgVar("N"))),
      Loop(CPlus(CSym("N"), CMult(CLit(2), CSym("f"))),
           <<<<"x", Var("f")>>, <<"f", Var("x")>>>>, Var("x")),
      If(IsType("x", TUnion(TSym("T"), TSym("f"))),
         IsType("f", TVector(<<TSym("x"), TNatRange(CLit(0), CSym("N"))>>)),
         Fail),
      AsType(Var("f"), TVectorof(TSym("T"), CSym("f"))) }

RenamedB(body) ==
    Source(<<Provide("q"),
             Function("f", <<"N">>, <<"T">>,
                      <<TypeBind("x", TVectorof(TUnion(TSym("T"), TSym("f")), CSym("N")))>>,
                      <<TUnion(TSym("T"), TSym("x"))>>, body),
             Struct("x", <<TypeBind("fld", TSym("T"))>>),
             Fn("q", Let("u", LitStruct("x", <<>>), Apply(Var("f"), <<Var("u")>>)))>>,
           Fail)

RenamerA == Source(<<Fn("f", Var("q")), Require("B")>>, Var("f"))

RenamerWorlds == {World(RenamerA, RenamedB(body), Empty) : body \in Bodies}

Worlds == ShapeWorlds \cup RenamerWorlds

(***************************************************************************)
(* The specification.                                                      *)
(***************************************************************************)
\* Demodularizer::new_at_fs: an empty cache; no call is running
Init ==
    /\ world \in Worlds
    /\ cache = [id \in {} |-> RawProgram(<<>>, Fail)]
    /\ frames = NoFrames
    /\ loaderCalls = [id \in ModuleIds |-> 0]
    /\ results = <<>>
    /\ mangleLog = {}

Paths == DOMAIN frames

Next ==
    \/ \E id \in ModuleIds : Call(id)
    \/ \E p \in Paths : Enter(p)
    \/ \E p \in Paths : \E c \in DOMAIN frames[p].chunks : FoldPush(p, c)
    \/ \E p \in Paths : \E c \in DOMAIN frames[p].chunks : FoldRequire(p, c)
    \/ \E q \in Paths : ReturnChild(q)
    \/ \E p \in Paths : \E c \in DOMAIN frames[p].chunks : Reduce(p, c)
    \/ ReturnRoot

Spec == Init /\ [][Next]_vars

(***************************************************************************)
(* Reading syntax trees: the module graph, and where symbols occur.        *)
(***************************************************************************)
RECURSIVE Cat(_)
Cat(seqs) == IF seqs = <<>> THEN <<>> ELSE Head(seqs) \o Cat(Tail(seqs))

Named(defs) == SelectSeq(defs, LAMBDA d : d.tag \in {"Function", "Struct"})
Names(defs) == {Named(defs)[k].name : k \in DOMAIN Named(defs)}
Provided(defs) == {defs[k].sym : k \in {j \in DOMAIN defs : defs[j].tag = "Provide"}}
Functions(defs) == {k \in DOMAIN Named(defs) : Named(defs)[k].tag = "Function"}

\* the modules a module requires, when its source can be read and parsed
Deps(w, m) ==
    IF w[m].io /\ w[m].syn
    THEN {w[m].definitions[k].other :
             k \in {j \in DOMAIN w[m].definitions : w[m].definitions[j].tag = "Require"}}
    ELSE {}

RECURSIVE ReachN(_, _, _)
ReachN(w, S, n) ==
    IF n = 0 THEN S ELSE ReachN(w, S \cup UNION {Deps(w, m) : m \in S}, n - 1)

\* id and all it requires, directly or not
Reach(w, id) == ReachN(w, {id}, Cardinality(ModuleIds))
\* all that id requires, directly or not
Below(w, id) == ReachN(w, Deps(w, id), Cardinality(ModuleIds))

CycleReachable(w, id) == \E m \in Reach(w, id) : m \in Below(w, m)
FailReachable(w, id) == \E m \in Reach(w, id) : ~w[m].io \/ ~w[m].syn
ConstantBelow(w, id) ==
    \E m \in Below(w, id) : \E k \in DOMAIN w[m].definitions :
        w[m].definitions[k].tag = "Constant"

\* the flattening of id read off the sources, one definition after the other
RECURSIVE Flattened(_, _)
Flattened(w, id) ==
    LET defs == w[id].definitions
    IN  Cat([k \in DOMAIN defs |->
                IF defs[k].tag = "Require"
                THEN mangle(Flattened(w, defs[k].other), defs[k].other)
                ELSE <<defs[k]>>])

RECURSIVE ConstSyms(_)
ConstSyms(c) ==
    CASE c.tag = "CSym" -> <<c.s>>
      [] c.tag = "CLit" -> <<>>
      [] OTHER -> ConstSyms(c.a) \o ConstSyms(c.b)

RECURSIVE TypeSyms(_)
TypeSyms(t) ==
    CASE t.tag = "TSym" -> <<t.s>>
      [] t.tag = "TUnion" -> TypeSyms(t.a) \o TypeSyms(t.b)
      [] t.tag = "TVector" -> Cat([k \in DOMAIN t.v |-> TypeSyms(t.v[k])])
      [] t.tag = "TVectorof" -> TypeSyms(t.v) \o ConstSyms(t.n)
      [] t.tag = "TNatRange" -> ConstSyms(t.i) \o ConstSyms(t.j)

\* the symbols an expression node holds itself, in a fixed order
NodeSyms(e) ==
    CASE e.tag \in {"Var", "CgVar", "LitStruct"} ->
            IF e.tag = "LitStruct" THEN <<e.a>> ELSE <<e.v>>
      [] e.tag = "Loop" -> ConstSyms(e.n) \o [k \in DOMAIN e.bod |-> e.bod[k][1]]
      [] e.tag = "IsType" -> <<e.a>> \o TypeSyms(e.t)
      [] e.tag = "AsType" -> TypeSyms(e.t)
      [] OTHER -> <<>>

\* the expressions directly below an expression node, in a fixed order
Kids(e) ==
    CASE e.tag = "Let" -> <<e.bind, e.body>>
      [] e.tag = "If" -> <<e.cond, e.a, e.b>>
      [] e.tag = "BinOp" -> <<e.a, e.b>>
      [] e.tag = "LitVec" -> e.v
      [] e.tag = "LitStruct" -> [k \in DOMAIN e.fields |-> e.fields[k][2]]
      [] e.tag = "Apply" -> <<e.f>> \o e.args
      [] e.tag \in {"Field", "AsType"} -> <<e.a>>
      [] e.tag = "VectorRef" -> <<e.v, e.i>>
      [] e.tag = "VectorSlice" -> <<e.v, e.i, e.j>>
      [] e.tag = "VectorUpdate" -> <<e.v, e.i, e.x>>
      [] e.tag = "Loop" -> [k \in DOMAIN e.bod |-> e.bod[k][2]] \o <<e.end>>
      [] OTHER -> <<>>

Occurrence(sin, sout, local, inbind, part) ==
    [sin |-> sin, sout |-> sout, local |-> local, inbind |-> inbind, part |-> part]

\* The symbol occurrences of an expression before (ein) and after (eout)
\* renaming: the symbol before, the symbol after, whether a binder of the
\* function (parameter, or let around the occurrence) binds it there, and
\* whether it stands in the bound value of a let.
RECURSIVE Occ(_, _, _, _)
Occ(ein, eout, bound, inbind) ==
    {Occurrence(NodeSyms(ein)[k], NodeSyms(eout)[k], NodeSyms(ein)[k] \in bound, inbind, "body") :
        k \in DOMAIN NodeSyms(ein)}
    \cup UNION {Occ(Kids(ein)[k], Kids(eout)[k],
                    IF ein.tag = "Let" /\ k = 2 THEN bound \cup {ein.sym} ELSE bound,
                    inbind \/ (ein.tag = "Let" /\ k = 1)) :
                   k \in DOMAIN Kids(ein)}

TypeOcc(tin, tout, bound, part) ==
    {Occurrence(TypeSyms(tin)[k], TypeSyms(tout)[k], TypeSyms(tin)[k] \in bound, FALSE, part) :
        k \in DOMAIN TypeSyms(tin)}

\* the names a function binds: compile-time generics, generics, arguments
Locals(d) ==
    {d.cgvars[k] : k \in DOMAIN d.cgvars} \cup {d.genvars[k] : k \in DOMAIN d.genvars}
        \cup {d.args[k].name : k \in DOMAIN d.args}

\* the occurrences in a function before (din) and after (dout) renaming
FnOcc(din, dout) ==
    Occ(din.body, dout.body, Locals(din), FALSE)
    \cup UNION {TypeOcc(din.args[k].bind, dout.args[k].bind, Locals(din), "argtype") :
                   k \in DOMAIN din.args}
    \cup UNION {TypeOcc(din.rettype[k], dout.rettype[k], Locals(din), "rettype") :
                   k \in DOMAIN din.rettype}

\* the occurrences in the k-th named definition of a logged call of mangle
EntryOcc(e, k) == FnOcc(Named(e.defs)[k], e.out[k])

OkResults == {k \in DOMAIN results : results[k].res.kind = "ok"}

(***************************************************************************)
(* The claims.                                                             *)
(***************************************************************************)

\* C1: once demod(id) has returned Ok, every later demod(id) on the same
\* Demodularizer returns an equal program and calls the loader for no module:
\* the loader counts at its end are those at the end of the call before it.
C1_LaterCallServedFromCache ==
    \A i \in DOMAIN results : \A j \in DOMAIN results :
        (i < j /\ results[i].id = results[j].id /\ results[i].res.kind = "ok")
            => /\ results[j].res = results[i].res
               /\ results[j].loads = results[j - 1].loads

\* C2: an Ok result holds no Require, and its Provide definitions are those
\* written in the root module's own source, in their order, and no others.
C2_OnlyRootProvidesRemain ==
    \A i \in OkResults :
        LET defs == results[i].res.definitions
            own == world[results[i].id].definitions
        IN  /\ \A k \in DOMAIN defs : defs[k].tag # "Require"
            /\ SelectSeq(defs, LAMBDA d : d.tag = "Provide")
                   = SelectSeq(own, LAMBDA d : d.tag = "Provide")

\* a root with a Provide of its own got an Ok result although the modules it
\* requires, directly and through them, hold Provide definitions too
C2_Witness ==
    \E i \in OkResults :
        /\ Provided(world[results[i].id].definitions) # {}
        /\ \E m \in Deps(world, results[i].id) :
              /\ Provided(world[m].definitions) # {}
              /\ \E n \in Deps(world, m) : Provided(world[n].definitions) # {}

\* C7: however the definition list was split and in whatever order the
\* pieces were folded and joined, an Ok result is the module's own
\* definitions in their order with every Require(M) replaced, in place, by
\* the renamed flattening of M.
C7_OrderPreserved ==
    \A i \in OkResults :
        results[i].res.definitions = Flattened(world, results[i].id)

\* [F1, Require(B), F2] was folded in three pieces and gave [F1, G1', G2', F2]
C7_Witness ==
    /\ results # <<>>
    /\ LET last == results[Len(results)]
       IN  /\ last.res.kind = "ok"
           /\ last.pieces = 3
           /\ world[last.id].definitions
                 = <<Fn("f1", LitNum(1)), Require("B"), Fn("f2", LitNum(2))>>
           /\ last.res.definitions
                 = <<Fn("f1", LitNum(1)), Fn("g1-12", Var("g2-12")), Fn("g2-12", LitNum(3)),
                     Fn("f2", LitNum(2))>>

\* C8 as claimed: when the root, or a module it requires directly or not,
\* cannot be loaded or parsed, the call returns Err, with no definitions,
\* however the fold was split.
C8_ReturnsErr ==
    \A i \in DOMAIN results :
        FailReachable(world, results[i].id)
            => /\ results[i].res.kind = "err"
               /\ results[i].res.definitions = <<>>

\* C8 amended: when the root, or a module it requires directly or not, cannot
\* be loaded or parsed, the call never gives an Ok program and hands out no
\* definitions, however the fold was split; it returns Err when no module the
\* root requires holds a Constant, and otherwise returns Err or unwinds with
\* the renamer's panic, returning nothing.
C8_ErrorPropagates ==
    \A i \in DOMAIN results :
        FailReachable(world, results[i].id)
            => /\ results[i].res.kind # "ok"
               /\ results[i].res.definitions = <<>>
               /\ \/ results[i].res.kind = "err"
                  \/ results[i].res.kind = "panic" /\ ConstantBelow(world, results[i].id)

\* a root whose definition list was split returned the loader's error,
\* ctx None, though the root and all it requires directly can be loaded and
\* parsed: the module that cannot be read is required only through another
C8_Witness ==
    \E i \in DOMAIN results :
        /\ results[i].res = ErrRes("io", "none")
        /\ results[i].pieces > 1
        /\ \A m \in Deps(world, results[i].id) \cup {results[i].id} :
              world[m].io /\ world[m].syn
        /\ \E m \in Below(world, results[i].id) : ~world[m].io

\* C3: in an Ok result no reference dangles: a symbol that stood free in a
\* function of a required module and named a top-level function or struct
\* there is, after renaming, the name of a top-level definition of the
\* result, or a name the result provides.
C3_NoDanglingReference ==
    \A i \in OkResults : \A e \in mangleLog :
        e.by = results[i].id =>
            \A k \in Functions(e.defs) : \A o \in EntryOcc(e, k) :
                (~o.local /\ o.sin \in Names(e.defs))
                    => o.sout \in Names(results[i].res.definitions)
                                      \cup Provided(results[i].res.definitions)

\* C4: when the requiring module and the required module each hold a private
\* function f, the required one is renamed away from f, and every reference
\* to f in its body that no binder captures is renamed to the same new name.
PrivateFunction(src, f) ==
    /\ \E k \in DOMAIN src.definitions :
          src.definitions[k].tag = "Function" /\ src.definitions[k].name = f
    /\ f \notin Provided(src.definitions)

C4_Hygiene ==
    \A e \in mangleLog : \A k \in Functions(e.defs) :
        LET f == Named(e.defs)[k].name
        IN  (PrivateFunction(world[e.by], f) /\ PrivateFunction(world[e.source], f))
                => /\ e.out[k].name # f
                   /\ \A o \in EntryOcc(e, k) :
                         (o.part = "body" /\ o.sin = f /\ ~o.local) => o.sout = e.out[k].name

\* C5: the do-not-mangle set used for a required module is the set of
\* Provide markers of that module's own source; and a definition of an Ok
\* result bears a name as written in some source only if the root defines
\* that name itself or a module the root requires directly provides it.
SourceNames == UNION {Names(w[m].definitions) : w \in Worlds, m \in ModuleIds}

C5_ExplicitReexportOnly ==
    /\ \A e \in mangleLog : e.no_mangle = Provided(world[e.source].definitions)
    /\ \A i \in OkResults :
          \A n \in Names(results[i].res.definitions) \cap SourceNames :
              \/ n \in Names(world[results[i].id].definitions)
              \/ \E m \in Deps(world, results[i].id) : n \in Provided(world[m].definitions)

\* A requires B requires C, C provides g and B does not: the Ok result of A
\* holds g under B's tag, and B's do-not-mangle set was logged without g
C5_Witness ==
    \E i \in OkResults :
        \E b \in Deps(world, results[i].id) : \E c \in Deps(world, b) :
            /\ "g" \in Provided(world[c].definitions)
            /\ "g" \notin Provided(world[b].definitions)
            /\ MangledName("g", b) \in Names(results[i].res.definitions)
            /\ "g" \notin Names(results[i].res.definitions)
            /\ \E e \in mangleLog :
                  e.by = results[i].id /\ e.source = b /\ "g" \in Names(e.defs)
                      /\ "g" \notin e.no_mangle

\* C6: where a function's parameter (argument, generic, compile-time generic)
\* or an enclosing let binds a name, every occurrence of the name in the
\* function's body and argument types comes out of the renamer unchanged.
C6_LocalBindingsKept ==
    \A e \in mangleLog : \A k \in Functions(e.defs) : \A o \in EntryOcc(e, k) :
        (o.part \in {"body", "argtype"} /\ o.local) => o.sout = o.sin

\* the top-level definition named s of a logged call was renamed
Renamed(e, s) ==
    \E j \in DOMAIN Named(e.defs) : Named(e.defs)[j].name = s /\ e.out[j].name # s

\* a function with an argument x and a let binding f went through the
\* renamer beside top-level definitions x and f, which were renamed, and the
\* bound occurrences of x and f stayed
C6_Witness ==
    \E e \in mangleLog : \E k \in Functions(e.defs) :
        /\ Named(e.defs)[k].body.tag = "Let"
        /\ Named(e.defs)[k].body.sym = "f"
        /\ \E j \in DOMAIN Named(e.defs)[k].args : Named(e.defs)[k].args[j].name = "x"
        /\ Renamed(e, "f")
        /\ Renamed(e, "x")
        /\ \A s \in {"f", "x"} : \E o \in EntryOcc(e, k) :
              o.part = "body" /\ o.local /\ o.sin = s /\ o.sout = s

\* C10: of a Let the renamer rewrites the bound value under the enclosing
\* do-not-mangle set, the bound name not yet in it: a symbol there that no
\* enclosing binder binds and the module does not provide comes out
\* module-qualified; and in the body the bound name is kept.
C10_LetBindRenamed ==
    \A e \in mangleLog : \A k \in Functions(e.defs) : \A o \in EntryOcc(e, k) :
        /\ (o.inbind /\ ~o.local /\ o.sin \notin e.no_mangle)
               => o.sout = MangledName(o.sin, e.source)
        /\ (o.part = "body" /\ ~o.inbind /\ o.local) => o.sout = o.sin

\* C9 as claimed: a call for an id from which a Require cycle can be reached
\* never returns, neither Ok nor an error.
C9_CycleNeverReturns ==
    \A i \in DOMAIN results :
        CycleReachable(world, results[i].id) => results[i].res.kind \notin {"ok", "err"}

\* the root's call is in progress, for an id that reaches a cycle, with all
\* it reaches readable, parsable and free of Constants
CleanCycleRunning ==
    /\ <<>> \in DOMAIN frames
    /\ CycleReachable(world, frames[<<>>].id)
    /\ ~FailReachable(world, frames[<<>>].id)
    /\ ~ConstantBelow(world, frames[<<>>].id)

\* C9 amended: a call for an id from which a cycle can be reached never
\* returns Ok; when moreover everything it reaches can be loaded and parsed
\* and holds no Constant, it never ends at all, and the recursion stops
\* nowhere but at the depth to which the model follows it.
C9_CleanCycleNeverReturns ==
    /\ \A i \in DOMAIN results :
          CycleReachable(world, results[i].id)
              => /\ results[i].res.kind # "ok"
                 /\ FailReachable(world, results[i].id) \/ ConstantBelow(world, results[i].id)
    /\ (CleanCycleRunning /\ ~ENABLED Next)
          => \E p \in DOMAIN frames : Len(p) = MaxDepth

\* demod(A) with A -> B -> A has nested as deep as the model follows it, A
\* being entered again below itself, and can go no further
C9_Witness ==
    /\ CleanCycleRunning
    /\ ~ENABLED Next
    /\ \E p \in DOMAIN frames :
          /\ Len(p) = MaxDepth
          /\ \E q \in DOMAIN frames :
                Len(q) < Len(p) /\ q = SubSeq(p, 1, Len(q)) /\ frames[q].id = frames[p].id

====
